---- MODULE Spec2Model ----
(***************************************************************************)
(* The VFS layer of easy-fs (easy-fs/src/vfs.rs): the Inode handle and its *)
(* directory and file operations over the on-disk inodes, the directory    *)
(* entries and the two allocation bitmaps.                                 *)
(*                                                                         *)
(* The volume holds one directory, the root, which is the `self` of every  *)
(* directory operation; write_at, read_at and clear act on the handles of  *)
(* the File inodes.  Each call runs to completion as one step.  A Rust     *)
(* panic (unwrap on None, a failed assert, an arithmetic overflow in a     *)
(* build that checks it) halts the kernel: it is recorded in `panicked`    *)
(* together with whatever the call had already changed.  find and read_at  *)
(* change nothing and are operators on the volume.                         *)
(***************************************************************************)
EXTENDS Integers, Sequences, FiniteSets, TLC

(***************************************************************************)
(* Bounds of the model.                                                    *)
(***************************************************************************)
NumInodes == 3          \* bits of the inode bitmap (root included)
NumDataBlocks == 5      \* bits of the data bitmap
MaxLen == 3             \* longest buffer passed to write_at / read_at
MaxOffset == 1          \* largest offset passed to write_at / read_at
MaxCalls == 3           \* mutating calls made in one run
MaxWrites == 1          \* write_at calls among them

(***************************************************************************)
(* Layout constants.  They are set in the layout module of easy-fs; the    *)
(* model scales them down so that a directory of two entries and a file    *)
(* of three bytes already span several blocks and need an index block.     *)
(***************************************************************************)
BLOCK_SZ == 2
DIRENT_SZ == 2
INODE_DIRECT_COUNT == 1
INODE_INDIRECT1_COUNT == 2
INODE_SZ == 1
INODE_AREA_START == 2
\* u32 arithmetic wraps modulo 2^32; TLC's integers are 32-bit signed, so the
\* model wraps at 2^30, far above every size and count it reaches.
U32 == 1073741824

Names == {"", "a", "b"}
Bytes == {1, 2}

INODES_PER_BLOCK == BLOCK_SZ \div INODE_SZ
INODE_AREA_BLOCKS == (NumInodes + INODES_PER_BLOCK - 1) \div INODES_PER_BLOCK
DATA_AREA_START == INODE_AREA_START + INODE_AREA_BLOCKS + 1

Min(a, b) == IF a < b THEN a ELSE b
CeilDiv(a, b) == (a + b - 1) \div b
SetMin(S) == CHOOSE x \in S : \A y \in S : x <= y

(***************************************************************************)
(* EasyFileSystem: the position of an inode number and its inverse.        *)
(***************************************************************************)
get_disk_inode_pos(inode_id) ==
    << INODE_AREA_START + (inode_id \div INODES_PER_BLOCK),
       (inode_id % INODES_PER_BLOCK) * INODE_SZ >>

get_disk_inode(block_id, block_offset) ==
    (block_id - INODE_AREA_START) * INODES_PER_BLOCK + (block_offset \div INODE_SZ)

ROOT_INODE_ID == 0
InodeIds == 0 .. (NumInodes - 1)
Positions == { get_disk_inode_pos(i) : i \in InodeIds }
ROOT == get_disk_inode_pos(ROOT_INODE_ID)
NoHandle == << -1, -1 >>
None == -1

(***************************************************************************)
(* DirEntry: a name and an inode number; the empty entry is a vacant slot. *)
(***************************************************************************)
DirEntry_new(name, inode_number) == [name |-> name, inode_number |-> inode_number]
DirEntry_empty == [name |-> "", inode_number |-> 0]

(***************************************************************************)
(* DiskInode.  `blocks` is the block-pointer table flattened: every data   *)
(* block and index block the inode owns, in the order they were wired in.  *)
(* A directory's content is `dirents` (size = entries * DIRENT_SZ), a      *)
(* file's content is `data` (size = bytes).                                *)
(***************************************************************************)
DiskInode_initialize(type_) ==
    [type_ |-> type_, size |-> 0, nlink |-> 1, blocks |-> << >>,
     dirents |-> << >>, data |-> << >>]

is_dir(di) == di.type_ = "Directory"

data_blocks(size) == CeilDiv(size, BLOCK_SZ)

total_blocks(size) ==
    LET d == data_blocks(size)
        INDIRECT1_BOUND == INODE_DIRECT_COUNT + INODE_INDIRECT1_COUNT
    IN  d + (IF d > INODE_DIRECT_COUNT THEN 1 ELSE 0)
          + (IF d > INDIRECT1_BOUND
               THEN 1 + CeilDiv(d - INDIRECT1_BOUND, INODE_INDIRECT1_COUNT)
               ELSE 0)

blocks_num_needed(di, new_size) == total_blocks(new_size) - total_blocks(di.size)

Zeros(n) == [i \in 1..n |-> 0]
Vacant(n) == [i \in 1..n |-> DirEntry_empty]

\* DiskInode::increase_size(new_size, new_blocks): wires the blocks in and
\* sets the size; the new range reads as zero bytes / vacant entries.
DiskInode_increase_size(di, new_size, v) ==
    [di EXCEPT !.size = new_size,
               !.blocks = di.blocks \o v,
               !.dirents = IF is_dir(di)
                             THEN di.dirents \o Vacant((new_size \div DIRENT_SZ) - Len(di.dirents))
                             ELSE di.dirents,
               !.data = IF is_dir(di) THEN di.data
                        ELSE di.data \o Zeros(new_size - Len(di.data))]

\* DiskInode::clear_size: the freed blocks are di.blocks.
DiskInode_clear_size(di) ==
    [di EXCEPT !.size = 0, !.blocks = << >>, !.dirents = << >>, !.data = << >>]

\* DiskInode::read_at on a file: the bytes of [offset, offset+len) clipped
\* to the size; the number of bytes read is the length of the result.
DiskInode_read_at(di, offset, len) ==
    LET end == Min(offset + len, di.size)
    IN  IF offset >= end THEN << >> ELSE SubSeq(di.data, offset + 1, end)

\* DiskInode::write_at on a file: writes buf into [offset, offset+len)
\* clipped to the size, never extends the size; .n is the bytes written.
DiskInode_write_at(di, offset, buf) ==
    LET end == Min(offset + Len(buf), di.size)
    IN  [di |-> [di EXCEPT !.data = [i \in 1..Len(di.data) |->
                                      IF i > offset /\ i <= end
                                        THEN buf[i - offset] ELSE di.data[i]]],
         n  |-> IF end > offset THEN end - offset ELSE 0]

\* DiskInode::read_at of one DirEntry at byte offset DIRENT_SZ * i.
read_dirent(di, i) == di.dirents[i + 1]

\* DiskInode::write_at of one DirEntry at byte offset DIRENT_SZ * i.
write_dirent(di, i, dirent) == [di EXCEPT !.dirents[i + 1] = dirent]


(***************************************************************************)
(* Bitmap and EasyFileSystem allocation.  A bitmap is the set of its set   *)
(* bits.  Bitmap::alloc returns the lowest clear bit or None; alloc_inode  *)
(* and alloc_data hand vfs.rs a plain u32, so they unwrap that result and  *)
(* an exhausted bitmap is a panic.                                         *)
(***************************************************************************)
Bitmap_alloc(bm, nbits) ==
    LET free == (0 .. (nbits - 1)) \ bm
    IN  IF free = {} THEN None ELSE SetMin(free)

RECURSIVE alloc_data_n(_, _)
\* n successive fs.alloc_data() calls: the ids obtained, the bitmap after
\* them and whether one of them found the bitmap exhausted.
alloc_data_n(bm, n) ==
    IF n = 0 THEN [ok |-> TRUE, v |-> << >>, bm |-> bm]
    ELSE LET bit == Bitmap_alloc(bm, NumDataBlocks)
         IN  IF bit = None THEN [ok |-> FALSE, v |-> << >>, bm |-> bm]
             ELSE LET rest == alloc_data_n(bm \cup {bit}, n - 1)
                  IN  [ok |-> rest.ok,
                       v  |-> << bit + DATA_AREA_START >> \o rest.v,
                       bm |-> rest.bm]

Range(s) == { s[i] : i \in DOMAIN s }

\* fs.dealloc_data for every id of v: clearing a bit that is not set, or
\* clearing one twice, is a panic.
dealloc_data_all(bm, v) ==
    LET bits == { b - DATA_AREA_START : b \in Range(v) }
    IN  [ok |-> bits \subseteq bm /\ Cardinality(bits) = Len(v),
         bm |-> bm \ bits]

(***************************************************************************)
(* Inode (vfs.rs).  The operators take the volume as a record              *)
(*   [inodes, inode_bitmap, data_bitmap]                                   *)
(* and return it with the call's result; `fault` is a panic.               *)
(***************************************************************************)
FirstMatch(di, name) ==
    LET file_count == di.size \div DIRENT_SZ
        hits == { i \in 0 .. (file_count - 1) : read_dirent(di, i).name = name }
    IN  IF hits = {} THEN None ELSE SetMin(hits)

find_inode_id(name, disk_inode) ==
    LET i == FirstMatch(disk_inode, name)
    IN  IF i = None THEN None ELSE read_dirent(disk_inode, i).inode_number

\* Inode::find and Inode::find_inode on the root: the handle or NoHandle.
find(fs, name) ==
    LET inode_id == find_inode_id(name, fs.inodes[ROOT])
    IN  IF inode_id = None THEN NoHandle ELSE get_disk_inode_pos(inode_id)

\* Inode::increase_size: [ok, di, bm].
increase_size(new_size, disk_inode, bm) ==
    IF new_size < disk_inode.size
      THEN [ok |-> TRUE, di |-> disk_inode, bm |-> bm]
      ELSE LET blocks_needed == blocks_num_needed(disk_inode, new_size)
               a == alloc_data_n(bm, blocks_needed)
           IN  [ok |-> a.ok,
                di |-> IF a.ok THEN DiskInode_increase_size(disk_inode, new_size, a.v)
                       ELSE disk_inode,
                bm |-> a.bm]

Result(inodes_, ibm, dbm, fault, ret_h, ret_n, out) ==
    [inodes |-> inodes_, inode_bitmap |-> ibm, data_bitmap |-> dbm,
     fault |-> fault, ret_h |-> ret_h, ret_n |-> ret_n, out |-> out]

Unchanged(fs, fault, ret_h, ret_n, out) ==
    Result(fs.inodes, fs.inode_bitmap, fs.data_bitmap, fault, ret_h, ret_n, out)

\* The append that grows the directory and leaves the new slot unwritten.
append_dirent_NoWrite(root_inode, dirent, bm) ==
    LET file_count == root_inode.size \div DIRENT_SZ
        g == increase_size(((file_count + 1) * DIRENT_SZ) % U32, root_inode, bm)
    IN  [ok |-> g.ok, di |-> g.di, bm |-> g.bm]

\* The append of one DirEntry to the root, shared by create and create_nlink:
\* increase_size by one entry, then write the entry in the new slot.
append_dirent(root_inode, dirent, bm) ==
    LET file_count == root_inode.size \div DIRENT_SZ
        new_size == (file_count + 1) * DIRENT_SZ
        g == increase_size(new_size % U32, root_inode, bm)
    IN  [ok |-> g.ok,
         di |-> IF g.ok THEN write_dirent(g.di, file_count, dirent) ELSE g.di,
         bm |-> g.bm]

\* create from line 122 on: the name is absent.
create_new(fs, name) ==
    LET bit == Bitmap_alloc(fs.inode_bitmap, NumInodes)
    IN  IF bit = None
          THEN Unchanged(fs, TRUE, NoHandle, 0, << >>)
          ELSE
            LET new_inode_id == bit
                pos == get_disk_inode_pos(new_inode_id)
                ibm == fs.inode_bitmap \cup {bit}
                ino1 == [fs.inodes EXCEPT ![pos] = DiskInode_initialize("File")]
                ap == append_dirent(ino1[ROOT], DirEntry_new(name, new_inode_id),
                                    fs.data_bitmap)
                ino2 == [ino1 EXCEPT ![ROOT] = ap.di]
            IN  IF ap.ok
                  THEN Result(ino2, ibm, ap.bm, FALSE, pos, 0, << >>)
                  ELSE Result(ino2, ibm, ap.bm, TRUE, NoHandle, 0, << >>)

\* create that skips the "has the file been created?" test.
create_NoExistsCheck(fs, name) == create_new(fs, name)

create(fs, name) ==
    IF find_inode_id(name, fs.inodes[ROOT]) # None
      THEN Unchanged(fs, FALSE, NoHandle, 0, << >>)
      ELSE create_new(fs, name)

add_disk_nlink(di) == [di EXCEPT !.nlink = (di.nlink + 1) % U32]

\* create_nlink that counts the link and appends no entry.
create_nlink_NoAppend(fs, newname, oldname) ==
    IF find_inode_id(newname, fs.inodes[ROOT]) # None
      THEN Unchanged(fs, FALSE, NoHandle, 0, << >>)
      ELSE
        LET old_inode == find(fs, oldname)
        IN  IF old_inode = NoHandle
              THEN Unchanged(fs, TRUE, NoHandle, 0, << >>)
              ELSE Result([fs.inodes EXCEPT ![old_inode] = add_disk_nlink(@)],
                          fs.inode_bitmap, fs.data_bitmap, FALSE, old_inode, 0, << >>)

\* Inode::create_nlink.
create_nlink(fs, newname, oldname) ==
    IF find_inode_id(newname, fs.inodes[ROOT]) # None
      THEN Unchanged(fs, FALSE, NoHandle, 0, << >>)
      ELSE
        LET old_inode == find(fs, oldname)
        IN  IF old_inode = NoHandle
              THEN Unchanged(fs, TRUE, NoHandle, 0, << >>)
              ELSE
                LET new_entry == DirEntry_new(newname,
                                     get_disk_inode(old_inode[1], old_inode[2]))
                    ap == append_dirent(fs.inodes[ROOT], new_entry, fs.data_bitmap)
                    ino1 == [fs.inodes EXCEPT ![ROOT] = ap.di]
                    ino2 == [ino1 EXCEPT ![old_inode] = add_disk_nlink(ino1[old_inode])]
                IN  IF ap.ok
                      THEN Result(ino2, fs.inode_bitmap, ap.bm, FALSE, old_inode, 0, << >>)
                      ELSE Result(ino1, fs.inode_bitmap, ap.bm, TRUE, NoHandle, 0, << >>)

\* clear that truncates the inode and keeps its blocks set in the bitmap.
clear_NoDealloc(inodes_, bm, h) ==
    [ok |-> TRUE,
     inodes |-> [inodes_ EXCEPT ![h] = DiskInode_clear_size(inodes_[h])],
     bm |-> bm]

\* Inode::clear on the inode at h: [ok, inodes, bm].
clear(inodes_, bm, h) ==
    LET di == inodes_[h]
        size == di.size
        data_blocks_dealloc == di.blocks
        d == dealloc_data_all(bm, data_blocks_dealloc)
    IN  [ok |-> Len(data_blocks_dealloc) = total_blocks(size) /\ d.ok,
         inodes |-> [inodes_ EXCEPT ![h] = DiskInode_clear_size(di)],
         bm |-> d.bm]

\* Inode::delete_file: every entry named path is overwritten by the empty one.
delete_file(root_inode, path) ==
    [root_inode EXCEPT !.dirents =
        [i \in 1..Len(root_inode.dirents) |->
            IF i <= root_inode.size \div DIRENT_SZ /\ root_inode.dirents[i].name = path
              THEN DirEntry_empty ELSE root_inode.dirents[i]]]

\* Inode::delete_nlink.  nlink -= 1 on a zero count panics when the build
\* checks overflow and wraps to 2^32 - 1 when it does not.
delete_nlink(fs, path, checks) ==
    LET inode == find(fs, path)
    IN  IF inode = NoHandle
          THEN Unchanged(fs, TRUE, NoHandle, 0, << >>)
          ELSE IF fs.inodes[inode].nlink = 0 /\ checks
          THEN Unchanged(fs, TRUE, NoHandle, 0, << >>)
          ELSE
            LET ino1 == [fs.inodes EXCEPT ![inode].nlink = (@ - 1) % U32]
            IN  IF ino1[inode].nlink = 0
                  THEN LET c == clear(ino1, fs.data_bitmap, inode)
                           ino2 == [c.inodes EXCEPT ![ROOT] = delete_file(c.inodes[ROOT], path)]
                       IN  IF c.ok
                             THEN Result(ino2, fs.inode_bitmap, c.bm, FALSE, NoHandle, 0, << >>)
                             ELSE Result(c.inodes, fs.inode_bitmap, c.bm, TRUE, NoHandle, 0, << >>)
                  ELSE Result(ino1, fs.inode_bitmap, fs.data_bitmap, FALSE, NoHandle, 0, << >>)

\* write_at that does not grow the inode before it writes.
write_at_NoGrow(fs, h, offset, buf) ==
    LET w == DiskInode_write_at(fs.inodes[h], offset, buf)
    IN  Result([fs.inodes EXCEPT ![h] = w.di], fs.inode_bitmap, fs.data_bitmap,
               FALSE, NoHandle, w.n, << >>)

\* Inode::write_at on the file at h.
write_at(fs, h, offset, buf) ==
    LET g == increase_size((offset + Len(buf)) % U32, fs.inodes[h], fs.data_bitmap)
        w == DiskInode_write_at(g.di, offset, buf)
    IN  IF ~g.ok
          THEN Result([fs.inodes EXCEPT ![h] = g.di], fs.inode_bitmap, g.bm,
                      TRUE, NoHandle, 0, << >>)
          ELSE Result([fs.inodes EXCEPT ![h] = w.di], fs.inode_bitmap, g.bm,
                      FALSE, NoHandle, w.n, << >>)

\* Inode::read_at on the file at h: the bytes copied into the buffer; the
\* call returns their number.
read_at(fs, h, offset, len) == DiskInode_read_at(fs.inodes[h], offset, len)

\* Inode::ls on the root: the name of every slot 0 .. file_count - 1, in
\* slot order; the loop pushes dirent.name() with no test on it.
ls(fs) ==
    LET disk_inode == fs.inodes[ROOT]
        file_count == disk_inode.size \div DIRENT_SZ
    IN  [i \in 1 .. file_count |-> read_dirent(disk_inode, i - 1).name]

(***************************************************************************)
(* The state.                                                              *)
(***************************************************************************)
VARIABLES
    inodes,           \* the inode area: position -> DiskInode
    inode_bitmap,     \* set bits of the inode bitmap
    data_bitmap,      \* set bits of the data bitmap
    panicked,         \* a call has panicked: the kernel has halted
    calls,            \* create, create_nlink, delete_nlink, write_at and clear calls so far
    writes,           \* write_at calls so far
    last,             \* the last call: its arguments and its result
    pre,              \* the volume as it was when the last call began
    children,         \* the calling task's children list, in Vec order
    exit_cell,        \* the i32 that exit_code_ptr points to
    wlast,            \* the last sys_waitpid call: its argument, result and pre-state
    procs,            \* per thread: the Inode call in progress, its position and locals
    fs_lock,          \* owner of the EasyFileSystem mutex, 0 when free
    cache_lock        \* owners of the block cache mutexes: block id -> thread, 0 when free

fsvars == << inodes, inode_bitmap, data_bitmap, calls, writes, last, pre >>
taskvars == << children, exit_cell, wlast >>
lockvars == << procs, fs_lock, cache_lock >>
vars == << inodes, inode_bitmap, data_bitmap, panicked, calls, writes, last, pre,
           children, exit_cell, wlast, procs, fs_lock, cache_lock >>

FS == [inodes |-> inodes, inode_bitmap |-> inode_bitmap, data_bitmap |-> data_bitmap]

\* An inode slot that was never allocated reads as zeroes.
DiskInode_zeroed ==
    [type_ |-> "File", size |-> 0, nlink |-> 0, blocks |-> << >>,
     dirents |-> << >>, data |-> << >>]

Call(op, name, oldname, h, offset, buf, len, r) ==
    [op |-> op, name |-> name, oldname |-> oldname, h |-> h, offset |-> offset,
     buf |-> buf, len |-> len, ret_h |-> r.ret_h, ret_n |-> r.ret_n, out |-> r.out]

\* A freshly formatted volume: the root directory is inode 0, nothing else.
Formatted ==
    [inodes |-> [p \in Positions |->
                   IF p = ROOT THEN DiskInode_initialize("Directory") ELSE DiskInode_zeroed],
     inode_bitmap |-> {ROOT_INODE_ID},
     data_bitmap |-> {}]

Volume(r) == [inodes |-> r.inodes, inode_bitmap |-> r.inode_bitmap,
              data_bitmap |-> r.data_bitmap]

\* The volumes a mount returns: the freshly formatted one, or an existing one
\* on which earlier runs made the file "a" and its hard link "b".
Mounted ==
    { Formatted,
      Volume(create_nlink(Volume(create(Formatted, "a")), "b", "a")) }

\* The two threads that may be inside Inode calls at once.
Procs == {1, 2}

\* The blocks of the inode area, each with its own cache mutex.
InodeBlocks == { p[1] : p \in Positions }

\* A thread: the call it is in (op and arguments), where it stands in it
\* (pc), and its locals: pos, the handle a lookup returned, and id, an inode
\* number.
Thread(pc, op, name, oldname, h, buf, checks) ==
    [pc |-> pc, op |-> op, name |-> name, oldname |-> oldname, h |-> h,
     buf |-> buf, checks |-> checks, pos |-> NoHandle, id |-> None]

IdleThread == Thread("idle", "none", "", "", NoHandle, << >>, FALSE)

\* No thread is inside a call and every mutex is free.
LockIdle ==
    /\ procs = [p \in Procs |-> IdleThread]
    /\ fs_lock = 0
    /\ cache_lock = [b \in InodeBlocks |-> 0]

\* What exit_code_ptr points to before any sys_waitpid stored through it.
CellInit == -1

NoWait == [op |-> "none", pid |-> 0, ret |-> 0, pre_children |-> << >>,
           pre_cell |-> CellInit]

\* The calling task has no children yet.
TaskIdle ==
    /\ children = << >>
    /\ exit_cell = CellInit
    /\ wlast = NoWait

MountOf(v) ==
    /\ inodes = v.inodes
    /\ inode_bitmap = v.inode_bitmap
    /\ data_bitmap = v.data_bitmap
    /\ pre = v
    /\ panicked = FALSE
    /\ calls = 0
    /\ writes = 0
    /\ last = Call("mount", "", "", NoHandle, 0, << >>, 0,
                   [ret_h |-> NoHandle, ret_n |-> 0, out |-> << >>])

Init ==
    /\ \E v \in Mounted : MountOf(v)
    /\ TaskIdle
    /\ LockIdle

Apply(r, call) ==
    /\ inodes' = r.inodes
    /\ inode_bitmap' = r.inode_bitmap
    /\ data_bitmap' = r.data_bitmap
    /\ panicked' = r.fault
    /\ last' = call
    /\ pre' = FS
    /\ UNCHANGED << taskvars, lockvars >>

Bufs == UNION { [1..n -> Bytes] : n \in 0..MaxLen }

\* The largest u32 as an offset: offset + buf.len() passes 2^32 for every
\* non-empty buf, and `as u32` (line 192) truncates it.
FarOffset == U32 - 1

\* The handles a caller can hold: the positions of the File inodes that
\* create has handed out.
FileHandles == { get_disk_inode_pos(i) : i \in inode_bitmap \ {ROOT_INODE_ID} }

Create(name) ==
    /\ ~panicked /\ calls < MaxCalls
    /\ LET r == create(FS, name)
       IN  Apply(r, Call("create", name, "", ROOT, 0, << >>, 0, r))
    /\ calls' = calls + 1
    /\ UNCHANGED writes

CreateNlink(newname, oldname) ==
    /\ ~panicked /\ calls < MaxCalls
    /\ LET r == create_nlink(FS, newname, oldname)
       IN  Apply(r, Call("create_nlink", newname, oldname, ROOT, 0, << >>, 0, r))
    /\ calls' = calls + 1
    /\ UNCHANGED writes

\* overflow_checks: the build panics on integer overflow (debug) or wraps.
DeleteNlink(path, overflow_checks) ==
    /\ ~panicked /\ calls < MaxCalls
    /\ LET r == delete_nlink(FS, path, overflow_checks)
       IN  Apply(r, Call("delete_nlink", path, "", ROOT, 0, << >>, 0, r))
    /\ calls' = calls + 1
    /\ UNCHANGED writes

WriteAt(h, offset, buf) ==
    /\ ~panicked /\ calls < MaxCalls /\ writes < MaxWrites
    /\ LET r == write_at(FS, h, offset, buf)
       IN  Apply(r, Call("write_at", "", "", h, offset, buf, Len(buf), r))
    /\ calls' = calls + 1
    /\ writes' = writes + 1

Clear(h) ==
    /\ ~panicked /\ calls < MaxCalls
    /\ LET c == clear(inodes, data_bitmap, h)
           r == Result(c.inodes, inode_bitmap, c.bm, ~c.ok, NoHandle, 0, << >>)
       IN  Apply(r, Call("clear", "", "", h, 0, << >>, 0, r))
    /\ calls' = calls + 1
    /\ UNCHANGED writes

Next ==
    \/ \E name \in Names : Create(name)
    \/ \E newname \in Names, oldname \in Names : CreateNlink(newname, oldname)
    \/ \E path \in Names, overflow_checks \in BOOLEAN : DeleteNlink(path, overflow_checks)
    \/ \E h \in FileHandles, offset \in 0..MaxOffset, buf \in Bufs : WriteAt(h, offset, buf)
    \/ \E h \in FileHandles : Clear(h)

Spec == Init /\ [][Next]_vars

\* The same calls, and write_at at the far offset.
NextFar ==
    \/ Next
    \/ \E h \in FileHandles, buf \in Bufs : WriteAt(h, FarOffset, buf)

SpecFar == Init /\ [][NextFar]_vars

(***************************************************************************)
(* Two threads inside Inode calls at once.  A step runs from one mutex      *)
(* acquisition to the next: `self.fs.lock()` is a step that waits for the   *)
(* EasyFileSystem mutex, and read_disk_inode / modify_disk_inode is a step  *)
(* that waits for the block's cache mutex, runs the closure and releases    *)
(* it.  create_nlink's second modify_disk_inode takes the fs mutex inside   *)
(* its closure, so there the cache mutex is held across steps.              *)
(***************************************************************************)
RootBlock == ROOT[1]

\* The first position of each call.
FirstPc ==
    [find |-> "find_lock", create |-> "create_lock", create_nlink |-> "nlink_check",
     delete_nlink |-> "unlink_find_lock", write_at |-> "write_lock",
     clear |-> "clear_lock"]

\* The positions that are a `self.fs.lock()`, and the position after each.
AfterFsLock ==
    [find_lock |-> "find_read", create_lock |-> "create_check",
     nlink_find_lock |-> "nlink_find", nlink_fs_lock |-> "nlink_append",
     unlink_find_lock |-> "unlink_find", unlink_clear_lock |-> "unlink_clear",
     write_lock |-> "write_modify", clear_lock |-> "clear_modify"]

Goto(t, pc) == procs' = [procs EXCEPT ![t].pc = pc]

\* The file bytes written in the two-thread runs.
LockBufs == { buf \in Bufs : Len(buf) = 1 }

\* A thread enters a call.
Begin(t, op, name, oldname, h, buf, checks) ==
    /\ ~panicked
    /\ procs[t].pc = "idle"
    /\ procs' = [procs EXCEPT ![t] = Thread(FirstPc[op], op, name, oldname, h, buf, checks)]
    /\ UNCHANGED << fsvars, panicked, taskvars, fs_lock, cache_lock >>

\* self.fs.lock(): spins until the mutex is free.
LockFs(t) ==
    /\ ~panicked
    /\ procs[t].pc \in DOMAIN AfterFsLock
    /\ fs_lock = 0
    /\ fs_lock' = t
    /\ Goto(t, AfterFsLock[procs[t].pc])
    /\ UNCHANGED << fsvars, panicked, taskvars, cache_lock >>

\* find, lines 81-92, and read_at alike: the lookup under both mutexes.
FindRead(t) ==
    /\ ~panicked
    /\ procs[t].pc = "find_read"
    /\ cache_lock[RootBlock] = 0
    /\ procs' = [procs EXCEPT ![t].pc = "done", ![t].pos = find(FS, procs[t].name)]
    /\ fs_lock' = 0
    /\ UNCHANGED << fsvars, panicked, taskvars, cache_lock >>

\* create, lines 114-121: has the file been created?
CreateCheck(t) ==
    /\ ~panicked
    /\ procs[t].pc = "create_check"
    /\ cache_lock[RootBlock] = 0
    /\ IF find_inode_id(procs[t].name, inodes[ROOT]) # None
         THEN Goto(t, "done") /\ fs_lock' = 0
         ELSE Goto(t, "create_init") /\ UNCHANGED fs_lock
    /\ UNCHANGED << fsvars, panicked, taskvars, cache_lock >>

\* create, lines 124-133: alloc_inode and initialize.
CreateInit(t) ==
    /\ ~panicked
    /\ procs[t].pc = "create_init"
    /\ LET bit == Bitmap_alloc(inode_bitmap, NumInodes)
           pos == get_disk_inode_pos(bit)
       IN  IF bit = None
             THEN /\ panicked' = TRUE
                  /\ UNCHANGED << inodes, inode_bitmap, procs >>
             ELSE /\ cache_lock[pos[1]] = 0
                  /\ inode_bitmap' = inode_bitmap \cup {bit}
                  /\ inodes' = [inodes EXCEPT ![pos] = DiskInode_initialize("File")]
                  /\ procs' = [procs EXCEPT ![t].pc = "create_append",
                                            ![t].id = bit, ![t].pos = pos]
                  /\ UNCHANGED panicked
    /\ UNCHANGED << data_bitmap, calls, writes, last, pre, taskvars, fs_lock, cache_lock >>

\* create, lines 134-158: the append to the root; the fs mutex is dropped
\* on return.
CreateAppend(t) ==
    /\ ~panicked
    /\ procs[t].pc = "create_append"
    /\ cache_lock[RootBlock] = 0
    /\ LET ap == append_dirent(inodes[ROOT], DirEntry_new(procs[t].name, procs[t].id),
                               data_bitmap)
       IN  /\ inodes' = [inodes EXCEPT ![ROOT] = ap.di]
           /\ data_bitmap' = ap.bm
           /\ panicked' = ~ap.ok
    /\ Goto(t, "done")
    /\ fs_lock' = 0
    /\ UNCHANGED << inode_bitmap, calls, writes, last, pre, taskvars, cache_lock >>

\* create_nlink, lines 239-246: is the new name there?  No fs mutex is held.
NlinkCheck(t) ==
    /\ ~panicked
    /\ procs[t].pc = "nlink_check"
    /\ cache_lock[RootBlock] = 0
    /\ IF find_inode_id(procs[t].name, inodes[ROOT]) # None
         THEN Goto(t, "done")
         ELSE Goto(t, "nlink_find_lock")
    /\ UNCHANGED << fsvars, panicked, taskvars, fs_lock, cache_lock >>

\* create_nlink, line 247: find_inode(oldname).unwrap(); find_inode drops the
\* fs mutex when it returns.
NlinkFind(t) ==
    /\ ~panicked
    /\ procs[t].pc = "nlink_find"
    /\ cache_lock[RootBlock] = 0
    /\ LET old_inode == find(FS, procs[t].oldname)
       IN  /\ procs' = [procs EXCEPT ![t].pc = "nlink_root_lock", ![t].pos = old_inode]
           /\ panicked' = (old_inode = NoHandle)
    /\ fs_lock' = 0
    /\ UNCHANGED << fsvars, taskvars, cache_lock >>

\* create_nlink, line 249: modify_disk_inode takes the root block's cache
\* mutex and keeps it while the closure runs.
NlinkLockRoot(t) ==
    /\ ~panicked
    /\ procs[t].pc = "nlink_root_lock"
    /\ cache_lock[RootBlock] = 0
    /\ cache_lock' = [cache_lock EXCEPT ![RootBlock] = t]
    /\ Goto(t, "nlink_ino_id")
    /\ UNCHANGED << fsvars, panicked, taskvars, fs_lock >>

\* create_nlink, line 254: old_inode.get_disk_inode() takes the fs mutex,
\* computes the inode number and drops it.
NlinkInodeId(t) ==
    /\ ~panicked
    /\ procs[t].pc = "nlink_ino_id"
    /\ fs_lock = 0
    /\ procs' = [procs EXCEPT ![t].pc = "nlink_fs_lock",
                              ![t].id = get_disk_inode(procs[t].pos[1], procs[t].pos[2])]
    /\ UNCHANGED << fsvars, panicked, taskvars, fs_lock, cache_lock >>

\* create_nlink, lines 256-263: the append; both mutexes are dropped when
\* the closure ends.
NlinkAppend(t) ==
    /\ ~panicked
    /\ procs[t].pc = "nlink_append"
    /\ LET ap == append_dirent(inodes[ROOT], DirEntry_new(procs[t].name, procs[t].id),
                               data_bitmap)
       IN  /\ inodes' = [inodes EXCEPT ![ROOT] = ap.di]
           /\ data_bitmap' = ap.bm
           /\ panicked' = ~ap.ok
    /\ Goto(t, "nlink_add")
    /\ fs_lock' = 0
    /\ cache_lock' = [cache_lock EXCEPT ![RootBlock] = 0]
    /\ UNCHANGED << inode_bitmap, calls, writes, last, pre, taskvars >>

\* create_nlink, line 270: add_disk_nlink, under the cache mutex only.
NlinkAdd(t) ==
    /\ ~panicked
    /\ procs[t].pc = "nlink_add"
    /\ cache_lock[procs[t].pos[1]] = 0
    /\ inodes' = [inodes EXCEPT ![procs[t].pos] = add_disk_nlink(@)]
    /\ Goto(t, "done")
    /\ UNCHANGED << inode_bitmap, data_bitmap, calls, writes, last, pre, panicked,
                    taskvars, fs_lock, cache_lock >>

\* delete_nlink, line 275: find_inode(path).unwrap().
UnlinkFind(t) ==
    /\ ~panicked
    /\ procs[t].pc = "unlink_find"
    /\ cache_lock[RootBlock] = 0
    /\ LET inode == find(FS, procs[t].name)
       IN  /\ procs' = [procs EXCEPT ![t].pc = "unlink_sub", ![t].pos = inode]
           /\ panicked' = (inode = NoHandle)
    /\ fs_lock' = 0
    /\ UNCHANGED << fsvars, taskvars, cache_lock >>

\* delete_nlink, line 277: sub_disk_nlink, under the cache mutex only.
UnlinkSub(t) ==
    /\ ~panicked
    /\ procs[t].pc = "unlink_sub"
    /\ cache_lock[procs[t].pos[1]] = 0
    /\ IF inodes[procs[t].pos].nlink = 0 /\ procs[t].checks
         THEN panicked' = TRUE /\ UNCHANGED << inodes, procs >>
         ELSE /\ inodes' = [inodes EXCEPT ![procs[t].pos].nlink = (@ - 1) % U32]
              /\ Goto(t, "unlink_get")
              /\ UNCHANGED panicked
    /\ UNCHANGED << inode_bitmap, data_bitmap, calls, writes, last, pre, taskvars,
                    fs_lock, cache_lock >>

\* delete_nlink, line 278: get_disk_nlink() == 0 ?
UnlinkGet(t) ==
    /\ ~panicked
    /\ procs[t].pc = "unlink_get"
    /\ cache_lock[procs[t].pos[1]] = 0
    /\ IF inodes[procs[t].pos].nlink = 0
         THEN Goto(t, "unlink_clear_lock")
         ELSE Goto(t, "done")
    /\ UNCHANGED << fsvars, panicked, taskvars, fs_lock, cache_lock >>

\* delete_nlink, line 279: inode.clear(), lines 201-209.
UnlinkClear(t) ==
    /\ ~panicked
    /\ procs[t].pc = "unlink_clear"
    /\ cache_lock[procs[t].pos[1]] = 0
    /\ LET c == clear(inodes, data_bitmap, procs[t].pos)
       IN  /\ inodes' = c.inodes
           /\ data_bitmap' = c.bm
           /\ panicked' = ~c.ok
    /\ Goto(t, "unlink_delete_file")
    /\ fs_lock' = 0
    /\ UNCHANGED << inode_bitmap, calls, writes, last, pre, taskvars, cache_lock >>

\* delete_nlink, line 280: delete_file(path), under the cache mutex only.
UnlinkDeleteFile(t) ==
    /\ ~panicked
    /\ procs[t].pc = "unlink_delete_file"
    /\ cache_lock[RootBlock] = 0
    /\ inodes' = [inodes EXCEPT ![ROOT] = delete_file(@, procs[t].name)]
    /\ Goto(t, "done")
    /\ UNCHANGED << inode_bitmap, data_bitmap, calls, writes, last, pre, panicked,
                    taskvars, fs_lock, cache_lock >>

\* write_at, lines 191-196.
WriteModify(t) ==
    /\ ~panicked
    /\ procs[t].pc = "write_modify"
    /\ cache_lock[procs[t].h[1]] = 0
    /\ LET r == write_at(FS, procs[t].h, 0, procs[t].buf)
       IN  /\ inodes' = r.inodes
           /\ data_bitmap' = r.data_bitmap
           /\ panicked' = r.fault
    /\ Goto(t, "done")
    /\ fs_lock' = 0
    /\ UNCHANGED << inode_bitmap, calls, writes, last, pre, taskvars, cache_lock >>

\* clear, lines 201-209.
ClearModify(t) ==
    /\ ~panicked
    /\ procs[t].pc = "clear_modify"
    /\ cache_lock[procs[t].h[1]] = 0
    /\ LET c == clear(inodes, data_bitmap, procs[t].h)
       IN  /\ inodes' = c.inodes
           /\ data_bitmap' = c.bm
           /\ panicked' = ~c.ok
    /\ Goto(t, "done")
    /\ fs_lock' = 0
    /\ UNCHANGED << inode_bitmap, calls, writes, last, pre, taskvars, cache_lock >>

\* The volumes of the two-thread runs: those of Mounted, and the one on which
\* an earlier run made the file "a" alone.
MountedLock == Mounted \cup { Volume(create(Formatted, "a")) }

InitLock ==
    /\ \E v \in MountedLock : MountOf(v)
    /\ TaskIdle
    /\ LockIdle

NextLock ==
    \E t \in Procs :
        \/ \E name \in Names :
              \/ Begin(t, "find", name, "", NoHandle, << >>, FALSE)
              \/ Begin(t, "create", name, "", NoHandle, << >>, FALSE)
        \/ \E newname \in Names, oldname \in Names :
              Begin(t, "create_nlink", newname, oldname, NoHandle, << >>, FALSE)
        \/ \E path \in Names, overflow_checks \in BOOLEAN :
              Begin(t, "delete_nlink", path, "", NoHandle, << >>, overflow_checks)
        \/ \E h \in FileHandles, buf \in LockBufs :
              Begin(t, "write_at", "", "", h, buf, FALSE)
        \/ \E h \in FileHandles : Begin(t, "clear", "", "", h, << >>, FALSE)
        \/ LockFs(t)
        \/ FindRead(t)
        \/ CreateCheck(t) \/ CreateInit(t) \/ CreateAppend(t)
        \/ NlinkCheck(t) \/ NlinkFind(t) \/ NlinkLockRoot(t) \/ NlinkInodeId(t)
        \/ NlinkAppend(t) \/ NlinkAdd(t)
        \/ UnlinkFind(t) \/ UnlinkSub(t) \/ UnlinkGet(t) \/ UnlinkClear(t)
        \/ UnlinkDeleteFile(t)
        \/ WriteModify(t)
        \/ ClearModify(t)

SpecLock == InitLock /\ [][NextLock]_vars

(***************************************************************************)
(* sys_waitpid (os6/src/syscall/process.rs).  The caller's children are a  *)
(* Vec of tasks; a child is [pid, zombie, exit_code, strong_count].        *)
(***************************************************************************)
MaxPid == 3             \* pids of children are 1 .. MaxPid
MaxChildren == 2        \* longest children list
MaxExitCode == 1        \* exit codes are 0 .. MaxExitCode

Pids == 1 .. MaxPid
ExitCodes == 0 .. MaxExitCode

\* The pid arguments: -1 (any child), another negative number, 0 and the pids.
WaitPids == (-2 .. 0) \cup Pids

\* `pid as usize`: a negative isize becomes a number above every pid.
USIZE == 1073741824
as_usize(pid) == IF pid < 0 THEN pid + USIZE ELSE pid

\* The closure of lines 78 and 88: pid == -1 || pid as usize == p.getpid().
pid_matches(pid, p) == pid = -1 \/ as_usize(pid) = p.pid

RemoveAt(seq, idx) ==
    [i \in 1 .. (Len(seq) - 1) |-> IF i < idx THEN seq[i] ELSE seq[i + 1]]

WaitResult(ch, ret, cell, fault) ==
    [children |-> ch, ret |-> ret, cell |-> cell, fault |-> fault]

\* sys_waitpid that takes the first matching child, zombie or not.
sys_waitpid_AnyChild(ch, pid, cell) ==
    LET hits == { i \in 1 .. Len(ch) : pid_matches(pid, ch[i]) }
    IN  IF hits = {} THEN WaitResult(ch, -1, cell, FALSE)
        ELSE LET idx == SetMin(hits)
             IN  WaitResult(RemoveAt(ch, idx), ch[idx].pid, ch[idx].exit_code, FALSE)

\* sys_waitpid(pid, exit_code_ptr) on the children list ch, with cell the
\* value exit_code_ptr points to: the new list, the return value, the new cell.
sys_waitpid(ch, pid, cell) ==
    IF ~ \E i \in 1 .. Len(ch) : pid_matches(pid, ch[i])
      THEN WaitResult(ch, -1, cell, FALSE)
      ELSE
        LET pair == { i \in 1 .. Len(ch) : ch[i].zombie /\ pid_matches(pid, ch[i]) }
        IN  IF pair # {}
              THEN LET idx == SetMin(pair)
                       child == ch[idx]
                   IN  IF child.strong_count # 1
                         THEN WaitResult(RemoveAt(ch, idx), 0, cell, TRUE)
                         ELSE WaitResult(RemoveAt(ch, idx), child.pid,
                                         child.exit_code, FALSE)
              ELSE WaitResult(ch, -2, cell, FALSE)

\* sys_fork by the caller: the new task joins the end of the children list
\* and the ready queue, so two Arcs refer to it.
Fork(pid) ==
    /\ ~panicked
    /\ Len(children) < MaxChildren
    /\ \A i \in 1 .. Len(children) : children[i].pid # pid
    /\ children' = Append(children,
                          [pid |-> pid, zombie |-> FALSE, exit_code |-> 0,
                           strong_count |-> 2])
    /\ wlast' = NoWait
    /\ UNCHANGED << fsvars, panicked, exit_cell, lockvars >>

\* sys_exit by the child at index i: it becomes a zombie holding its exit
\* code, and only the parent's list still refers to it.
ChildExit(i, exit_code) ==
    /\ ~panicked
    /\ i \in 1 .. Len(children)
    /\ ~children[i].zombie
    /\ children' = [children EXCEPT ![i] = [@ EXCEPT !.zombie = TRUE,
                                                     !.exit_code = exit_code,
                                                     !.strong_count = 1]]
    /\ wlast' = NoWait
    /\ UNCHANGED << fsvars, panicked, exit_cell, lockvars >>

SysWaitpid(pid) ==
    /\ ~panicked
    /\ LET r == sys_waitpid(children, pid, exit_cell)
       IN  /\ children' = r.children
           /\ exit_cell' = r.cell
           /\ panicked' = r.fault
           /\ wlast' = [op |-> "waitpid", pid |-> pid, ret |-> r.ret,
                        pre_children |-> children, pre_cell |-> exit_cell]
    /\ UNCHANGED << fsvars, lockvars >>

InitWait ==
    /\ MountOf(Formatted)
    /\ TaskIdle
    /\ LockIdle

NextWait ==
    \/ \E pid \in Pids : Fork(pid)
    \/ \E i \in 1 .. MaxChildren, exit_code \in ExitCodes : ChildExit(i, exit_code)
    \/ \E pid \in WaitPids : SysWaitpid(pid)

SpecWait == InitWait /\ [][NextWait]_vars


(***************************************************************************)
(* The claims.  `pre` is the volume before the last call, the variables    *)
(* are the volume after it.                                                *)
(***************************************************************************)
Root == inodes[ROOT]
PreRoot == pre.inodes[ROOT]
VolumeUnchanged ==
    /\ inodes = pre.inodes
    /\ inode_bitmap = pre.inode_bitmap
    /\ data_bitmap = pre.data_bitmap
Live(e) == e.name # ""
Slots(di) == 1 .. (di.size \div DIRENT_SZ)

\* C1: create(name) on a directory that already holds an entry named name
\* returns None and changes nothing: the directory (size and entries), the
\* inode bitmap and the data bitmap are as before the call.
C1_CreateExisting ==
    (last.op = "create" /\ find_inode_id(last.name, PreRoot) # None)
        => (last.ret_h = NoHandle /\ ~panicked /\ VolumeUnchanged)

C1_Witness ==
    /\ last.op = "create"
    /\ find_inode_id(last.name, PreRoot) # None
    /\ PreRoot.size > 0

\* C2: create(name) on a directory that does not hold name, when the call
\* returns: the inode number it allocated was free and no entry of the
\* directory referenced it; the inode is an empty File; the directory grew by
\* exactly one entry (name, that number); the handle returned is that inode's
\* position, and find(name) on the same directory returns the same handle.
C2_CreateFresh ==
    (last.op = "create" /\ find_inode_id(last.name, PreRoot) = None /\ ~panicked)
        => /\ last.ret_h \in Positions
           /\ LET id == get_disk_inode(last.ret_h[1], last.ret_h[2])
              IN  /\ id \notin pre.inode_bitmap
                  /\ id \in inode_bitmap
                  /\ \A i \in Slots(PreRoot) : PreRoot.dirents[i].inode_number # id
                  /\ last.ret_h = get_disk_inode_pos(id)
                  /\ inodes[last.ret_h].type_ = "File"
                  /\ inodes[last.ret_h].size = 0
                  /\ inodes[last.ret_h].data = << >>
                  /\ Root.size = PreRoot.size + DIRENT_SZ
                  /\ Root.dirents = Append(PreRoot.dirents, DirEntry_new(last.name, id))
           /\ find(FS, last.name) = last.ret_h

C2_Witness ==
    /\ last.op = "create"
    /\ find_inode_id(last.name, PreRoot) = None
    /\ ~panicked
    /\ last.name # ""
    /\ PreRoot.size > 0
    /\ last.ret_h # NoHandle


\* C3: after a successful create_nlink(b, a) in a directory where a exists and
\* b does not, find(a) and find(b) return the same handle, the inode's nlink
\* is one more than before the call, and that nlink is at least 2.
C3_HardLink ==
    (/\ last.op = "create_nlink" /\ ~panicked
     /\ find(pre, last.oldname) # NoHandle
     /\ find(pre, last.name) = NoHandle)
        => LET h == find(pre, last.oldname)
           IN  /\ last.ret_h = h
               /\ find(FS, last.oldname) = h
               /\ find(FS, last.name) = h
               /\ inodes[h].nlink = pre.inodes[h].nlink + 1
               /\ inodes[h].nlink >= 2

\* C4: when delete_nlink(name) decrements an inode's nlink and the count
\* stays positive, find(name) returns None afterwards, every other name of the
\* inode still resolves to it, and the inode's size and content are unchanged.
C4_UnlinkOneName ==
    (/\ last.op = "delete_nlink" /\ ~panicked
     /\ find(pre, last.name) # NoHandle
     /\ pre.inodes[find(pre, last.name)].nlink >= 2)
        => LET h == find(pre, last.name)
           IN  /\ inodes[h].nlink = pre.inodes[h].nlink - 1
               /\ find(FS, last.name) = NoHandle
               /\ \A n \in Names \ {last.name} : find(pre, n) = h => find(FS, n) = h
               /\ inodes[h].size = pre.inodes[h].size
               /\ inodes[h].data = pre.inodes[h].data
               /\ inodes[h].blocks = pre.inodes[h].blocks

\* C5: when delete_nlink(name) brings an inode's nlink to zero, the inode's
\* size becomes 0, every data and index block it owned is clear in the data
\* bitmap, and the directory slot that held name holds the vacant entry, the
\* directory keeping its size.
C5_UnlinkLastName ==
    (/\ last.op = "delete_nlink" /\ ~panicked
     /\ find(pre, last.name) # NoHandle
     /\ pre.inodes[find(pre, last.name)].nlink = 1)
        => LET h == find(pre, last.name)
               i == FirstMatch(PreRoot, last.name)
           IN  /\ inodes[h].nlink = 0
               /\ inodes[h].size = 0
               /\ \A b \in Range(pre.inodes[h].blocks) :
                      (b - DATA_AREA_START) \notin data_bitmap
               /\ Root.size = PreRoot.size
               /\ Root.dirents[i + 1] = DirEntry_empty

\* C6: in every reachable state, the nlink of each allocated file inode is
\* the number of live (non-vacant) directory entries that hold its number.
C6_NlinkCountsEntries ==
    \A id \in inode_bitmap \ {ROOT_INODE_ID} :
        inodes[get_disk_inode_pos(id)].nlink =
            Cardinality({ i \in Slots(Root) : /\ Live(Root.dirents[i])
                                               /\ Root.dirents[i].inode_number = id })

\* C7: in every reachable state, every inode a live directory entry
\* references has nlink >= 1, and delete_nlink never decrements an nlink of 0.
C7_NlinkPositive ==
    /\ \A i \in Slots(Root) :
          Live(Root.dirents[i])
              => inodes[get_disk_inode_pos(Root.dirents[i].inode_number)].nlink >= 1
    /\ ~ (/\ last.op = "delete_nlink"
          /\ find(pre, last.name) # NoHandle
          /\ pre.inodes[find(pre, last.name)].nlink = 0)

\* C8: a name that is not found is an ordinary outcome: create_nlink with
\* the existing name absent, and delete_nlink with the name absent, return
\* without a panic and leave the directory, the link counts and the bitmaps
\* unchanged.
C8_NotFoundOrdinary ==
    (\/ last.op = "create_nlink" /\ find(pre, last.oldname) = NoHandle
     \/ last.op = "delete_nlink" /\ find(pre, last.name) = NoHandle)
        => (~panicked /\ last.ret_h = NoHandle /\ VolumeUnchanged)

FreeData(fs) == NumDataBlocks - Cardinality(fs.data_bitmap)
DirGrowth(fs) ==
    blocks_num_needed(fs.inodes[ROOT], fs.inodes[ROOT].size + DIRENT_SZ)

\* The last call needed an inode or data blocks that the bitmaps did not have.
Exhausted ==
    \/ /\ last.op = "create"
       /\ find_inode_id(last.name, PreRoot) = None
       /\ (pre.inode_bitmap = InodeIds \/ DirGrowth(pre) > FreeData(pre))
    \/ /\ last.op = "create_nlink"
       /\ find(pre, last.name) = NoHandle
       /\ find(pre, last.oldname) # NoHandle
       /\ DirGrowth(pre) > FreeData(pre)
    \/ /\ last.op = "write_at"
       /\ (last.offset + Len(last.buf)) % U32 >= pre.inodes[last.h].size
       /\ blocks_num_needed(pre.inodes[last.h], (last.offset + Len(last.buf)) % U32)
              > FreeData(pre)

\* C9: allocator exhaustion is an ordinary outcome: a create, create_nlink
\* or write_at that needs an inode or data blocks the bitmaps do not have
\* returns without a panic and leaves no inode and no data block allocated
\* for the failed call.
C9_ExhaustionOrdinary ==
    Exhausted => /\ ~panicked
                 /\ last.ret_h = NoHandle
                 /\ inode_bitmap = pre.inode_bitmap
                 /\ data_bitmap = pre.data_bitmap

\* C10: write_at(0, b) on a file of size 0, when the call returns, returns
\* Len(b), and read_at(0, buf) with a buffer of Len(b) bytes then reads
\* Len(b) bytes that are exactly b.
C10_RoundTrip ==
    (/\ last.op = "write_at" /\ ~panicked
     /\ last.offset = 0
     /\ pre.inodes[last.h].size = 0)
        => /\ last.ret_n = Len(last.buf)
           /\ read_at(FS, last.h, 0, Len(last.buf)) = last.buf

C10_Witness ==
    /\ last.op = "write_at" /\ ~panicked
    /\ last.offset = 0
    /\ pre.inodes[last.h].size = 0
    /\ Len(last.buf) > BLOCK_SZ
    /\ last.buf[1] # last.buf[2]


\* C11: after clear() on an inode of size s the size is 0 and read_at(0, buf)
\* reads 0 bytes; the ids handed to dealloc_data are total_blocks(s) many, and
\* every block the inode owned is clear in the data bitmap afterwards.
C11_Clear ==
    last.op = "clear"
        => /\ ~panicked
           /\ inodes[last.h].size = 0
           /\ read_at(FS, last.h, 0, MaxLen) = << >>
           /\ Len(pre.inodes[last.h].blocks) = total_blocks(pre.inodes[last.h].size)
           /\ Cardinality(pre.data_bitmap \ data_bitmap) = total_blocks(pre.inodes[last.h].size)
           /\ \A b \in Range(pre.inodes[last.h].blocks) :
                  (b - DATA_AREA_START) \notin data_bitmap

C11_Witness ==
    /\ last.op = "clear"
    /\ pre.inodes[last.h].size > BLOCK_SZ
    /\ inodes[last.h].size = 0


\* The names of the live entries of a directory, in slot order.
LiveNames(di) ==
    LET IsName(n) == n # ""
    IN  SelectSeq([i \in Slots(di) |-> di.dirents[i].name], IsName)

\* C14: ls() lists the names in slot order and skips vacant slots: the result
\* is exactly the live names and holds no empty string.
C14_LsSkipsVacant ==
    ~panicked => /\ ls(FS) = LiveNames(Root)
                 /\ "" \notin Range(ls(FS))


\* C15: the directory's size is always a multiple of DIRENT_SZ; a successful
\* create or create_nlink raises it by exactly DIRENT_SZ and a failed one
\* leaves it as it was.
C15_DirSizeStep ==
    /\ Root.size % DIRENT_SZ = 0
    /\ last.op \in {"create", "create_nlink"}
          => IF ~panicked /\ last.ret_h # NoHandle
               THEN Root.size = PreRoot.size + DIRENT_SZ
               ELSE Root.size = PreRoot.size

C15_Witness ==
    /\ last.op = "create_nlink"
    /\ ~panicked /\ last.ret_h # NoHandle
    /\ PreRoot.size > 0
    /\ Root.size = PreRoot.size + DIRENT_SZ


\* C16: unlink never compacts the directory: unlink(name) leaves the
\* directory's size unchanged, leaves every slot other than the one named name
\* unchanged at the same index, and the removed slot becomes the empty DirEntry.
C16_UnlinkNoCompact ==
    (last.op = "delete_nlink" /\ ~panicked)
        => /\ Root.size = PreRoot.size
           /\ \A i \in Slots(PreRoot) :
                  IF i - 1 = FirstMatch(PreRoot, last.name)
                    THEN Root.dirents[i] = DirEntry_empty
                    ELSE Root.dirents[i] = PreRoot.dirents[i]


\* C17: an inode's size never decreases except through clear; write_at(offset,
\* buf) leaves the size at max(old size, offset + len(buf)) and, when the inode
\* grows, allocates exactly blocks_num_needed(new size) blocks, also when
\* offset + len(buf) does not fit in 32 bits.
C17_WriteSize ==
    /\ last.op \notin {"clear", "delete_nlink"}
          => \A h \in Positions : inodes[h].size >= pre.inodes[h].size
    /\ (last.op = "write_at" /\ ~panicked)
          => LET old == pre.inodes[last.h]
                 end == last.offset + Len(last.buf)
             IN  /\ inodes[last.h].size = IF old.size >= end THEN old.size ELSE end
                 /\ inodes[last.h].size > old.size
                       => Cardinality(data_bitmap \ pre.data_bitmap)
                              = blocks_num_needed(old, inodes[last.h].size)


\* A vacant slot: the empty DirEntry left by delete_file.
VacantSlots(di) == { i \in Slots(di) : di.dirents[i] = DirEntry_empty }

\* C19: a vacant slot is never taken for a live entry: once unlink has left an
\* empty slot, find("") still returns None, and create("") and
\* create_nlink("", a) are not turned down as "already exists" because of it.
C19_VacantNotLive ==
    /\ (/\ ~panicked
        /\ \A i \in Slots(Root) : Root.dirents[i].name = "" => i \in VacantSlots(Root))
          => find(FS, "") = NoHandle
    /\ (/\ last.op \in {"create", "create_nlink"}
        /\ last.name = ""
        /\ ~panicked
        /\ \A i \in Slots(PreRoot) : PreRoot.dirents[i].name = ""
                                        => i \in VacantSlots(PreRoot))
          => last.ret_h # NoHandle


\* The children of the last sys_waitpid call's pre-state that match its pid.
Matching == { i \in 1 .. Len(wlast.pre_children) :
                 wlast.pid = -1 \/ wlast.pid = wlast.pre_children[i].pid }
MatchingZombies == { i \in Matching : wlast.pre_children[i].zombie }

\* C20: sys_waitpid(pid, ptr) returns -1 and changes nothing when no child
\* matches pid (-1 matches any child); returns -2 and changes nothing when a
\* child matches and no matching child is a zombie; otherwise it removes
\* exactly one matching zombie child, stores its exit code through ptr and
\* returns its pid.
C20_Waitpid ==
    wlast.op = "waitpid"
        => /\ ~panicked
           /\ Matching = {}
                 => /\ wlast.ret = -1
                    /\ children = wlast.pre_children
                    /\ exit_cell = wlast.pre_cell
           /\ (Matching # {} /\ MatchingZombies = {})
                 => /\ wlast.ret = -2
                    /\ children = wlast.pre_children
                    /\ exit_cell = wlast.pre_cell
           /\ MatchingZombies # {}
                 => \E i \in MatchingZombies :
                       /\ children = RemoveAt(wlast.pre_children, i)
                       /\ exit_cell = wlast.pre_children[i].exit_code
                       /\ wlast.ret = wlast.pre_children[i].pid

C20_Witness ==
    /\ wlast.op = "waitpid"
    /\ wlast.pid = -1
    /\ Len(wlast.pre_children) = MaxChildren
    /\ ~wlast.pre_children[1].zombie
    /\ wlast.ret = wlast.pre_children[MaxChildren].pid
    /\ exit_cell = MaxExitCode
    /\ Len(children) = MaxChildren - 1


\* The calls that mutate structural state.
Mutating == {"create", "create_nlink", "delete_nlink", "write_at", "clear"}

\* The positions whose step reads or writes a DiskInode.
DiskInodeSteps ==
    {"create_check", "create_init", "create_append",
     "nlink_check", "nlink_find", "nlink_append", "nlink_add",
     "unlink_find", "unlink_sub", "unlink_get", "unlink_clear", "unlink_delete_file",
     "write_modify", "clear_modify"}

\* C12: every mutating Inode call (create, create_nlink, delete_nlink,
\* write_at, clear) holds the filesystem-wide lock at each of its reads and
\* writes of a DiskInode, and from its first step until it returns.
C12_FsLockHeld ==
    ~panicked =>
        \A t \in Procs :
            procs[t].op \in Mutating =>
                /\ procs[t].pc \in DiskInodeSteps => fs_lock = t
                /\ procs[t].pc \notin {"idle", "done", FirstPc[procs[t].op]}
                      => fs_lock = t

\* The mutexes a thread is waiting for at its position.
WantsFs(t) == procs[t].pc \in (DOMAIN AfterFsLock) \cup {"nlink_ino_id"}

CacheWanted(t) ==
    LET pc == procs[t].pc
        bit == Bitmap_alloc(inode_bitmap, NumInodes)
    IN  IF pc \in {"find_read", "create_check", "create_append", "nlink_check",
                   "nlink_find", "nlink_root_lock", "unlink_find", "unlink_delete_file"}
          THEN {RootBlock}
        ELSE IF pc \in {"nlink_add", "unlink_sub", "unlink_get", "unlink_clear"}
          THEN {procs[t].pos[1]}
        ELSE IF pc \in {"write_modify", "clear_modify"}
          THEN {procs[t].h[1]}
        ELSE IF pc = "create_init" /\ bit # None
          THEN {get_disk_inode_pos(bit)[1]}
        ELSE {}

\* t cannot move before u releases a mutex.
WaitsFor(t, u) ==
    \/ WantsFs(t) /\ fs_lock = u
    \/ \E b \in CacheWanted(t) : cache_lock[b] = u

\* C13: under any interleaving of two concurrent Inode calls no state is
\* reached in which each call waits for a lock the other holds.
C13_NoDeadlock ==
    ~panicked =>
        ~ \E t \in Procs, u \in Procs :
              /\ t # u
              /\ WaitsFor(t, u)
              /\ WaitsFor(u, t)

\* C18: under any sequence or interleaving of create, create_nlink and
\* delete_nlink calls a directory never holds two live entries with the same
\* name.
C18_NoDuplicateNames ==
    \A i \in Slots(Root), j \in Slots(Root) :
        (i # j /\ Live(Root.dirents[i]) /\ Live(Root.dirents[j]))
            => Root.dirents[i].name # Root.dirents[j].name

====
